---- MODULE Spec2Model ----
(***************************************************************************)
(* Model of src/src/prefect/futures.py: the PrefectFuture handle (wait,    *)
(* get_state, __hash__) and the two resolvers resolve_futures_to_data and  *)
(* resolve_futures_to_states, together with the collaborators they call:   *)
(* the Orion client (status store), the executor (blocking wait),          *)
(* prefect.get_result and visit_collection.                                *)
(*                                                                         *)
(* A call is modelled step by step, one step per stretch of code between   *)
(* two suspension points, so that concurrent calls on one handle           *)
(* interleave as they do in the program.  Spec has callers of wait and     *)
(* get_state; SpecFair has callers of wait under fair scheduling;          *)
(* SpecResolve has a caller of the resolvers and callers of wait beside    *)
(* it.  Handles are constructed as the executors construct them, without   *)
(* the _final_state argument.                                              *)
(***************************************************************************)
EXTENDS Integers, Sequences, FiniteSets, TLC

\* ---------------------------------------------------------------- bounds
MaxTimeout == 0      \* timeouts a caller may pass are 0..MaxTimeout

\* two concurrent logical threads of control, two PrefectFuture instances
\* (with the same run id or not) and two task run ids
Callers  == {"c1", "c2"}
Handles  == {"h1", "h2"}
RunIds   == {"u1", "u2"}

\* The payload of a run's final state. The code forwards payloads and never
\* looks into them, so each run's payload is named after the run.
PayloadOf(u) == u
Payloads == { PayloadOf(u) : u \in RunIds }

\* ---------------------------------------------------------------- values
\* state.data of a state that carries no payload (falsy in Python)
NoData == "NoData"
\* timeout=None
NoTimeout == -1
Timeouts == {NoTimeout} \cup (0..MaxTimeout)

\* Python's None, as a status-shaped value so that it compares with states
None == [type |-> "None", data |-> NoData]
\* read_task_run's falsy answer for an id the server has no task run for
NoRun == [type |-> "NoRun", data |-> NoData]
\* RuntimeError("Future has no associated task run in the server.")
NotFound == [type |-> "RuntimeError", data |-> NoData]

StateTypes    == {"Pending", "Running", "Completed", "Failed", "Cancelled"}
TerminalTypes == {"Completed", "Failed", "Cancelled"}
States        == [type : StateTypes, data : {NoData} \cup Payloads]

is_completed(state) == state.type = "Completed"
is_failed(state)    == state.type = "Failed"
IsTerminal(state)   == state.type \in TerminalTypes

\* truth value of an Optional[State]: a State object is truthy, None is not
Truthy(x) == x # None

\* outcome of a call: nothing yet, a returned value, or a raised error
NoOutcome  == [kind |-> "running", val |-> None]
Return(v)  == [kind |-> "return", val |-> v]
Raise(e)   == [kind |-> "raise", val |-> e]

\* the error get_result raises for a failed state: it carries the payload
UpstreamFailure(d) == [type |-> "UpstreamFailure", data |-> d]

\* -------------------------------------------------------------- the trees
\* The expressions handed to the resolvers: scalars, futures and the
\* collections visit_collection walks (list, dict, set, dataclass); the
\* resolvers put states and payloads where the futures were.
Scalar(v)     == [kind |-> "scalar", v |-> v]
Future(h)     == [kind |-> "future", h |-> h]
StateNode(s)  == [kind |-> "state", s |-> s]
List(items)   == [kind |-> "list", items |-> items]
\* a dict: its keys in insertion order and the values under them
Dict(keys, items) == [kind |-> "dict", keys |-> keys, items |-> items]
\* a dataclass instance: its class, its fields and their values
Record(typ, fields, items) ==
    [kind |-> "record", typ |-> typ, fields |-> fields, items |-> items]
\* a set: its members in the order iteration yields them, no two equal
Set(items)    == [kind |-> "set", items |-> items]

Collections == {"list", "dict", "record", "set"}

\* a plain value that is no payload
PlainValue == "x"

Exprs ==
    { Scalar(PlainValue),
      List(<<Scalar(PlainValue), List(<<>>),
             Dict(<<"k">>, <<Set(<<Scalar(PlainValue)>>)>>)>>) }
    \cup { Future(h) : h \in Handles }
    \cup { List(<<Scalar(PlainValue), Future("h1"), List(<<Future(h)>>)>>) : h \in Handles }
    \cup { Dict(<<"a", "b">>,
                <<Scalar(PlainValue), Record("T", <<"f">>, <<Future("h2")>>)>>),
           Set(<<Future("h1"), Scalar(PayloadOf("u1"))>>) }

RECURSIVE FutureLeaves(_)
\* the paths of the PrefectFuture instances inside an expression
FutureLeaves(t) ==
    IF t.kind = "future" THEN { <<>> }
    ELSE IF t.kind \in Collections
         THEN UNION { { <<i>> \o p : p \in FutureLeaves(t.items[i]) } : i \in DOMAIN t.items }
         ELSE {}

RECURSIVE NodeAt(_, _)
NodeAt(t, p) == IF p = <<>> THEN t ELSE NodeAt(t.items[Head(p)], Tail(p))

RECURSIVE Replace(_, _, _)
\* the expression rebuilt with the node at path p replaced by n
Replace(t, p, n) ==
    IF p = <<>> THEN n
    ELSE [t EXCEPT !.items[Head(p)] = Replace(@, Tail(p), n)]

RECURSIVE Dedup(_)
\* the members of set(items): of equal items the first stays
Dedup(items) ==
    IF items = <<>> THEN <<>>
    ELSE LET n    == Len(items)
             rest == Dedup(SubSeq(items, 1, n - 1))
         IN  IF \E i \in DOMAIN rest : rest[i] = items[n]
             THEN rest
             ELSE Append(rest, items[n])

RECURSIVE AsType(_)
\* typ(result): every collection built anew, of its own type, from its
\* visited children; a set built from equal children has them once
AsType(t) ==
    IF t.kind \in Collections
    THEN LET items == [i \in DOMAIN t.items |-> AsType(t.items[i])]
         IN  [t EXCEPT !.items = IF t.kind = "set" THEN Dedup(items) ELSE items]
    ELSE t

\* ---------------------------------------------------------------- state
VARIABLES
    run_id,         \* run_id[h]: PrefectFuture.run_id
    _final_state,   \* _final_state[h]: PrefectFuture._final_state
    task_runs,      \* the server: state of the task run of each id, or NoRun
    finished,       \* the executor: final state of each run, None until final
    call            \* call[c]: the call caller c is in, with its locals

vars == <<run_id, _final_state, task_runs, finished, call>>

\* a caller that is in no call
Idle ==
    [ op |-> "none", pc |-> "idle", h |-> "h1", timeout |-> NoTimeout,
      result |-> None, outcome |-> NoOutcome, queries |-> 0, backend_calls |-> 0,
      expr |-> Scalar(PlainValue), acc |-> Scalar(PlainValue), path |-> <<>>,
      waited |-> None, after_empty |-> FALSE ]

\* a call that has ended with outcome o: its locals are gone
Done(cr, o) ==
    [Idle EXCEPT !.op = cr.op, !.pc = "done", !.outcome = o,
                 !.h = IF cr.op = "wait" THEN cr.h ELSE Idle.h,
                 !.timeout = IF cr.op = "wait" THEN cr.timeout ELSE Idle.timeout,
                 !.queries = cr.queries, !.backend_calls = cr.backend_calls,
                 !.expr = cr.expr, !.path = cr.path, !.waited = cr.waited]

Init ==
    /\ run_id \in { f \in [Handles -> RunIds] : f["h1"] = "u1" }
    /\ _final_state = [h \in Handles |-> None]
    /\ task_runs \in [RunIds -> {NoRun, [type |-> "Pending", data |-> NoData]}]
    /\ \A u \in RunIds : (\A h \in Handles : run_id[h] # u) => task_runs[u] = NoRun
    /\ finished = [u \in RunIds |-> None]
    /\ call = [c \in Callers |-> Idle]

\* ------------------------------------------------------------ collaborators
\* OrionClient.read_task_run(run_id): the task run, or nothing
read_task_run(u) == task_runs[u]

\* BaseExecutor.wait(future, timeout): the results the executor can hand back
\* now. It has the run's final state once the run is final; before that a
\* call with a timeout times out with None and a call without one blocks.
executor_wait(h, timeout) ==
    IF finished[run_id[h]] # None THEN { finished[run_id[h]] }
    ELSE IF timeout # NoTimeout THEN { None }
    ELSE {}

\* prefect.get_result(state): the payload, or the failure raised
get_result(state) ==
    IF state.type \in {"Failed", "Cancelled"}
    THEN Raise(UpstreamFailure(state.data))
    ELSE Return(state.data)

\* ------------------------------------------------------------ PrefectFuture
\* get_state without the test of the task run it read
get_state_Unchecked(h) == Return(read_task_run(run_id[h]))

\* PrefectFuture.get_state
get_state(h) ==
    LET task_run == read_task_run(run_id[h])
    IN  IF task_run = NoRun THEN Raise(NotFound) ELSE Return(task_run)

\* wait returning whatever state it read, without asking the executor
ReturnsDirectly_AnyState(state) == state.type \in StateTypes

\* wait's test of the state it read: return it without asking the executor
ReturnsDirectly(state) ==
    (is_completed(state) \/ is_failed(state)) /\ state.data # NoData

\* a == b for two PrefectFuture instances: the class defines no __eq__, so
\* this is object identity
eq(a, b) == a = b

\* PrefectFuture.__hash__: the hash of the run id, a function of the id alone
__hash__(h) == run_id[h]

\* ---------------------------------------------------------------- resolvers
\* visit_collection's end: every future replaced, the rebuilt expression is
\* returned; otherwise another leaf is visited
Rebuilt(cr) ==
    IF FutureLeaves(cr.acc) = {}
    THEN Done(cr, Return(AsType(cr.acc)))
    ELSE [cr EXCEPT !.pc = "visit", !.h = Idle.h, !.path = Idle.path]

\* visit_fn of resolve_futures_to_data putting the state, not its payload, in
\* the future's place
visit_fn_data_KeepsState(cr, o) ==
    IF o.kind = "raise" THEN Done(cr, o)
    ELSE LET r == get_result(o.val)
             cr1 == [cr EXCEPT !.waited = o.val]
         IN  IF r.kind = "raise"
             THEN Done(cr1, r)
             ELSE Rebuilt([cr1 EXCEPT !.acc = Replace(@, cr.path, StateNode(o.val))])

\* resolve_futures_to_data.visit_fn, from the point where expr.wait() ended
visit_fn_data(cr, o) ==
    IF o.kind = "raise" THEN Done(cr, o)
    ELSE LET r == get_result(o.val)
             cr1 == [cr EXCEPT !.waited = o.val]
         IN  IF r.kind = "raise"
             THEN Done(cr1, r)
             ELSE Rebuilt([cr1 EXCEPT !.acc = Replace(@, cr.path, Scalar(r.val))])

\* visit_fn of resolve_futures_to_states catching the error of expr.wait()
\* and leaving the future to be visited again
visit_fn_states_Retries(cr, o) ==
    IF o.kind = "raise" THEN [cr EXCEPT !.pc = "visit", !.h = Idle.h, !.path = Idle.path]
    ELSE Rebuilt([cr EXCEPT !.waited = o.val,
                            !.acc = Replace(@, cr.path, StateNode(o.val))])

\* visit_fn of resolve_futures_to_states unwrapping the state as
\* resolve_futures_to_data does
visit_fn_states_Unwraps(cr, o) == visit_fn_data(cr, o)

\* resolve_futures_to_states.visit_fn, from the point where expr.wait() ended
visit_fn_states(cr, o) ==
    IF o.kind = "raise" THEN Done(cr, o)
    ELSE Rebuilt([cr EXCEPT !.waited = o.val,
                            !.acc = Replace(@, cr.path, StateNode(o.val))])

\* a wait call ends with outcome o: back to the caller, or to the visit_fn
Finish(cr, o) ==
    IF cr.op = "wait" THEN Done(cr, o)
    ELSE IF cr.op = "to_data" THEN visit_fn_data(cr, o)
    ELSE visit_fn_states(cr, o)

\* ------------------------------------------------------------------ actions
CanCall(c) == call[c].pc \in {"idle", "done"}

\* the wait calls on h that have returned v and whose caller has made no
\* call since
ReturnedBy(h, v) ==
    { d \in Callers : /\ call[d].op = "wait" /\ call[d].pc = "done" /\ call[d].h = h
                      /\ call[d].outcome = Return(v) }

\* a wait call on h has returned None
ReturnedEmpty(h) == ReturnedBy(h, None) # {}

\* wait without the test of _final_state: the server is always asked
WaitEnter_IgnoresCache(c, cr) ==
    /\ call' = [call EXCEPT ![c] = [cr EXCEPT !.pc = "get_state", !.queries = @ + 1]]
    /\ UNCHANGED <<run_id, _final_state, task_runs, finished>>

\* wait answering a call with timeout 0 at once with None when the cache is
\* empty, without asking the server
WaitEnter_PollsOnly(c, cr) ==
    /\ IF Truthy(_final_state[cr.h])
       THEN call' = [call EXCEPT ![c] = Finish(cr, Return(_final_state[cr.h]))]
       ELSE IF cr.timeout = 0
       THEN call' = [call EXCEPT ![c] = Finish(cr, Return(None))]
       ELSE call' = [call EXCEPT ![c] = [cr EXCEPT !.pc = "get_state", !.queries = @ + 1]]
    /\ UNCHANGED <<run_id, _final_state, task_runs, finished>>

\* PrefectFuture.wait, lines 110-111 and the call of get_state: the cached
\* state is returned at once, otherwise the query goes to the server
WaitEnter(c, cr) ==
    LET cr1 == [cr EXCEPT !.after_empty = /\ cr.op = "wait" /\ cr.timeout = NoTimeout
                                          /\ ReturnedEmpty(cr.h)]
    IN
    /\ IF Truthy(_final_state[cr.h])
       THEN call' = [call EXCEPT ![c] = Finish(cr1, Return(_final_state[cr.h]))]
       ELSE call' = [call EXCEPT ![c] = [cr1 EXCEPT !.pc = "get_state", !.queries = @ + 1]]
    /\ UNCHANGED <<run_id, _final_state, task_runs, finished>>

\* a caller calls future.wait(timeout)
Wait(c, h, t) ==
    /\ CanCall(c)
    /\ WaitEnter(c, [Idle EXCEPT !.op = "wait", !.h = h, !.timeout = t])

\* wait storing the state it read from the server in _final_state
WaitGetState_CachesState(c) ==
    LET cr  == call[c]
        got == get_state(cr.h)
    IN  /\ cr.pc = "get_state"
        /\ IF got.kind = "raise"
           THEN /\ call' = [call EXCEPT ![c] = Finish(cr, got)]
                /\ UNCHANGED _final_state
           ELSE /\ _final_state' = [_final_state EXCEPT ![cr.h] = got.val]
                /\ IF ReturnsDirectly(got.val)
                   THEN call' = [call EXCEPT ![c] = Finish(cr, Return(got.val))]
                   ELSE call' = [call EXCEPT ![c] =
                                    [cr EXCEPT !.pc = "executor_wait", !.backend_calls = @ + 1]]
        /\ UNCHANGED <<run_id, task_runs, finished>>

\* PrefectFuture.wait, lines 113-115: the server answers get_state
WaitGetState(c) ==
    LET cr  == call[c]
        got == get_state(cr.h)
    IN  /\ cr.pc = "get_state"
        /\ IF got.kind = "raise"
           THEN call' = [call EXCEPT ![c] = Finish(cr, got)]
           ELSE IF ReturnsDirectly(got.val)
           THEN call' = [call EXCEPT ![c] = Finish(cr, Return(got.val))]
           ELSE call' = [call EXCEPT ![c] =
                            [cr EXCEPT !.pc = "executor_wait", !.backend_calls = @ + 1]]
        /\ UNCHANGED <<run_id, _final_state, task_runs, finished>>

\* PrefectFuture.wait, line 117, right-hand side: the executor's wait ends
ExecutorWait(c) ==
    LET cr == call[c]
    IN  /\ cr.pc = "executor_wait"
        /\ \E r \in executor_wait(cr.h, cr.timeout) :
              call' = [call EXCEPT ![c] = [cr EXCEPT !.result = r, !.pc = "assign"]]
        /\ UNCHANGED <<run_id, _final_state, task_runs, finished>>

\* wait raising on the executor's timeout instead of returning None
WaitAssign_RaisesOnTimeout(c) ==
    LET cr == call[c]
    IN  /\ cr.pc = "assign"
        /\ _final_state' = [_final_state EXCEPT ![cr.h] = cr.result]
        /\ call' = [call EXCEPT ![c] =
                        Finish(cr, IF cr.result = None
                                   THEN Raise([type |-> "TimeoutError", data |-> NoData])
                                   ELSE Return(cr.result))]
        /\ UNCHANGED <<run_id, task_runs, finished>>

\* PrefectFuture.wait, lines 117-119: the caller resumes, stores what the
\* executor returned in _final_state and returns it
WaitAssign(c) ==
    LET cr == call[c]
    IN  /\ cr.pc = "assign"
        /\ _final_state' = [_final_state EXCEPT ![cr.h] = cr.result]
        /\ call' = [call EXCEPT ![c] = Finish(cr, Return(cr.result))]
        /\ UNCHANGED <<run_id, task_runs, finished>>

\* get_state answering from _final_state when it is populated
GetState_FromCache(c, h) ==
    /\ CanCall(c)
    /\ call' = [call EXCEPT ![c] =
                    [Idle EXCEPT !.op = "get_state", !.h = h, !.pc = "done",
                                 !.queries = IF Truthy(_final_state[h]) THEN 0 ELSE 1,
                                 !.outcome = IF Truthy(_final_state[h])
                                             THEN Return(_final_state[h])
                                             ELSE get_state(h)]]
    /\ UNCHANGED <<run_id, _final_state, task_runs, finished>>

\* a caller calls future.get_state()
GetState(c, h) ==
    /\ CanCall(c)
    /\ call' = [call EXCEPT ![c] =
                    [Idle EXCEPT !.op = "get_state", !.h = h, !.pc = "done",
                                 !.queries = 1,
                                 !.outcome = get_state(h)]]
    /\ UNCHANGED <<run_id, _final_state, task_runs, finished>>

\* the resolvers calling visit_collection without return_data=True: a walk
\* that finds nothing to wait for hands back None
Resolve_NoReturnData(c, op, e) ==
    LET cr == Rebuilt([Idle EXCEPT !.op = op, !.expr = e, !.acc = e])
    IN  /\ CanCall(c)
        /\ call' = [call EXCEPT ![c] =
                        IF cr.pc = "done" THEN [cr EXCEPT !.outcome = Return(None)] ELSE cr]
        /\ UNCHANGED <<run_id, _final_state, task_runs, finished>>

\* a caller calls resolve_futures_to_data(e) or resolve_futures_to_states(e)
Resolve(c, op, e) ==
    /\ CanCall(c)
    /\ call' = [call EXCEPT ![c] = Rebuilt([Idle EXCEPT !.op = op, !.expr = e, !.acc = e])]
    /\ UNCHANGED <<run_id, _final_state, task_runs, finished>>

resolve_futures_to_data(c, e) == Resolve(c, "to_data", e)

resolve_futures_to_states(c, e) == Resolve(c, "to_states", e)

\* visit_fn calling expr.wait(0) instead of expr.wait()
Visit_WithTimeout(c, p) ==
    LET cr == call[c]
    IN  /\ cr.pc = "visit"
        /\ p \in FutureLeaves(cr.acc)
        /\ WaitEnter(c, [cr EXCEPT !.path = p, !.h = NodeAt(cr.acc, p).h,
                                   !.timeout = 0])

\* visit_collection reaches a future and visit_fn calls expr.wait()
Visit(c, p) ==
    LET cr == call[c]
    IN  /\ cr.pc = "visit"
        /\ p \in FutureLeaves(cr.acc)
        /\ WaitEnter(c, [cr EXCEPT !.path = p, !.h = NodeAt(cr.acc, p).h,
                                   !.timeout = NoTimeout])

\* the run starts
SetRunning(u) ==
    /\ task_runs[u].type = "Pending"
    /\ task_runs' = [task_runs EXCEPT ![u].type = "Running"]
    /\ UNCHANGED <<run_id, _final_state, finished, call>>

\* the run reaches its final state t; the server has the state with the
\* payload (d = PayloadOf(u)) or, for the moment, without it
FinishRun(u, t, d) ==
    /\ task_runs[u].type = "Running"
    /\ finished' = [finished EXCEPT ![u] = [type |-> t, data |-> PayloadOf(u)]]
    /\ d \in {NoData, PayloadOf(u)}
    /\ task_runs' = [task_runs EXCEPT ![u] = [type |-> t, data |-> d]]
    /\ UNCHANGED <<run_id, _final_state, call>>

\* the payload reaches the server
AttachData(u) ==
    /\ IsTerminal(task_runs[u])
    /\ task_runs[u].data = NoData
    /\ task_runs' = [task_runs EXCEPT ![u].data = finished[u].data]
    /\ UNCHANGED <<run_id, _final_state, finished, call>>

\* the runs the futures stand for go on while the callers wait
Environment ==
    \/ \E u \in RunIds : SetRunning(u)
    \/ \E u \in RunIds, t \in TerminalTypes, d \in {NoData} \cup Payloads :
            FinishRun(u, t, d)
    \/ \E u \in RunIds : AttachData(u)

\* callers that call wait and get_state on the futures, concurrently
Next ==
    \/ \E c \in Callers, h \in Handles, t \in Timeouts : Wait(c, h, t)
    \/ \E c \in Callers : WaitGetState(c)
    \/ \E c \in Callers : ExecutorWait(c)
    \/ \E c \in Callers : WaitAssign(c)
    \/ \E c \in Callers, h \in Handles : GetState(c, h)
    \/ Environment

Spec == Init /\ [][Next]_vars

\* the caller whose wait calls carry no timeout; the others call wait with
\* any timeout beside it
Waiter == "c1"

NextFair ==
    \/ \E h \in Handles : Wait(Waiter, h, NoTimeout)
    \/ \E c \in Callers \ {Waiter}, h \in Handles, t \in Timeouts : Wait(c, h, t)
    \/ \E c \in Callers : WaitGetState(c)
    \/ \E c \in Callers : ExecutorWait(c)
    \/ \E c \in Callers : WaitAssign(c)
    \/ Environment

\* The scheduling the waits rely on: a call that can go on does go on (the
\* event loop resumes a coroutine whose awaited server answer or executor
\* result is there), and a run the server knows starts and reaches a final
\* state.
Fairness ==
    /\ \A c \in Callers : /\ WF_vars(WaitGetState(c))
                          /\ WF_vars(ExecutorWait(c))
                          /\ WF_vars(WaitAssign(c))
    /\ \A u \in RunIds : /\ WF_vars(SetRunning(u))
                         /\ WF_vars(\E t \in TerminalTypes, d \in {NoData} \cup Payloads :
                                        FinishRun(u, t, d))

SpecFair == Init /\ [][NextFair]_vars /\ Fairness

\* the caller that resolves expressions; the others wait on the same futures,
\* with timeout 0
Resolver == "c1"

NextResolve ==
    \/ \E e \in Exprs : resolve_futures_to_data(Resolver, e)
    \/ \E e \in Exprs : resolve_futures_to_states(Resolver, e)
    \/ \E p \in FutureLeaves(call[Resolver].acc) : Visit(Resolver, p)
    \/ \E c \in Callers \ {Resolver}, h \in Handles : Wait(c, h, 0)
    \/ \E c \in Callers : WaitGetState(c)
    \/ \E c \in Callers : ExecutorWait(c)
    \/ \E c \in Callers : WaitAssign(c)
    \/ Environment

SpecResolve == Init /\ [][NextResolve]_vars

\* ------------------------------------------------------------------- claims
\* caller c makes a new call of wait on h in this step
CallsWait(c, h) ==
    /\ CanCall(c) /\ call'[c] # call[c]
    /\ call'[c].op = "wait" /\ call'[c].h = h

\* caller c's wait call, in flight before this step, ends in this step
WaitEnds(c) ==
    /\ call[c].op = "wait" /\ call[c].pc \in {"get_state", "executor_wait", "assign"}
    /\ call'[c].pc = "done"

\* C1: once a wait call on a handle has returned a terminal state (read from
\* the server or returned by the executor), every wait call made on that
\* handle afterwards returns the same state and sends no query to the server.
C1_CacheStability ==
    [][\A c \in Callers, d \in Callers, h \in Handles, s \in States :
          (IsTerminal(s) /\ c \in ReturnedBy(h, s) /\ CallsWait(d, h))
          => /\ call'[d].pc = "done"
             /\ call'[d].outcome = Return(s)
             /\ call'[d].queries = 0]_vars

\* C2: once _final_state holds a terminal state it holds that state in every
\* later state, whatever the concurrent wait calls do.
C2_CacheNeverReset ==
    [][\A h \in Handles :
          IsTerminal(_final_state[h]) => _final_state'[h] = _final_state[h]]_vars

\* C3: a wait call made while _final_state is populated, with any timeout,
\* returns the cached state, sends no query, calls the executor not at all
\* and leaves _final_state as it is.
C3_CachedReturn ==
    [][\A c \in Callers, h \in Handles :
          (Truthy(_final_state[h]) /\ CallsWait(c, h))
          => /\ call'[c].pc = "done"
             /\ call'[c].outcome = Return(_final_state[h])
             /\ call'[c].queries = 0
             /\ call'[c].backend_calls = 0
             /\ _final_state' = _final_state]_vars

C3_Witness ==
    \E c \in Callers :
        /\ call[c].op = "wait" /\ call[c].pc = "done"
        /\ call[c].queries = 0 /\ call[c].backend_calls = 0
        /\ call[c].outcome.kind = "return" /\ IsTerminal(call[c].outcome.val)
        /\ _final_state[call[c].h] = call[c].outcome.val

\* C4: a wait call with a timeout whose run is not final when the timeout
\* elapses (the executor's wait timed out) returns None, raises nothing, and
\* _final_state is empty when it returns.
C4_TimeoutReturnsNone ==
    [][\A c \in Callers :
          (/\ call[c].op = "wait" /\ call[c].pc = "assign" /\ call[c].result = None
           /\ call'[c] # call[c])
          => /\ call'[c].pc = "done"
             /\ call'[c].outcome = Return(None)
             /\ _final_state'[call[c].h] = None]_vars

C4_Witness ==
    \E c \in Callers :
        /\ call[c].op = "wait" /\ call[c].pc = "done"
        /\ call[c].outcome = Return(None)
        /\ finished[run_id[call[c].h]] = None
        /\ _final_state[call[c].h] = None

\* C5: a wait call without timeout, made after wait calls on the handle have
\* returned None, returns a terminal state, and that state is in _final_state
\* when it returns.
C5_ReusableAfterTimeout ==
    [][\A c \in Callers :
          (WaitEnds(c) /\ call[c].timeout = NoTimeout /\ call[c].after_empty)
          => /\ call'[c].outcome.kind = "return"
             /\ IsTerminal(call'[c].outcome.val)
             /\ _final_state'[call[c].h] = call'[c].outcome.val]_vars

\* C6: a wait call on a handle with an empty cache whose id the server does
\* not know raises the RuntimeError, after one query and no call of the
\* executor, and the cache of such a handle stays empty.
C6_NotFound ==
    /\ [][\A c \in Callers :
             (/\ call[c].op = "wait" /\ call[c].pc = "get_state"
              /\ read_task_run(run_id[call[c].h]) = NoRun
              /\ call'[c] # call[c])
             => /\ call'[c].pc = "done"
                /\ call'[c].outcome = Raise(NotFound)
                /\ call'[c].queries = 1
                /\ call'[c].backend_calls = 0
                /\ _final_state'[call[c].h] = None]_vars
    /\ [](\A h \in Handles : read_task_run(run_id[h]) = NoRun => _final_state[h] = None)

C6_Witness ==
    \E c \in Callers :
        /\ call[c].op = "wait" /\ call[c].pc = "done"
        /\ call[c].outcome = Raise(NotFound)
        /\ call[c].queries = 1
        /\ _final_state[call[c].h] = None

\* C7: get_state sends one query and returns the state the server has for
\* the id now, or raises the RuntimeError when the server has no run for it,
\* whatever _final_state holds; it leaves _final_state alone and never calls
\* the executor.
C7_GetState ==
    [][\A c \in Callers, h \in Handles :
          (/\ CanCall(c) /\ call'[c] # call[c]
           /\ call'[c].op = "get_state" /\ call'[c].h = h)
          => /\ call'[c].pc = "done"
             /\ call'[c].queries = 1
             /\ call'[c].backend_calls = 0
             /\ call'[c].outcome = IF task_runs[run_id[h]] = NoRun
                                   THEN Raise(NotFound)
                                   ELSE Return(task_runs[run_id[h]])
             /\ _final_state' = _final_state]_vars

C7_Witness ==
    \E c \in Callers :
        /\ call[c].op = "get_state" /\ call[c].pc = "done"
        /\ Truthy(_final_state[call[c].h])
        /\ call[c].outcome.kind = "return"
        /\ call[c].outcome.val # _final_state[call[c].h]

\* C8: when the cache is empty and the server answers with a terminal state
\* that carries a payload (Completed, Failed or Cancelled), wait returns that
\* state and does not call the executor.
C8_TerminalReturnedDirectly ==
    [][\A c \in Callers :
          (/\ call[c].op = "wait" /\ call[c].pc = "get_state"
           /\ IsTerminal(read_task_run(run_id[call[c].h]))
           /\ read_task_run(run_id[call[c].h]).data # NoData
           /\ call'[c] # call[c])
          => /\ call'[c].pc = "done"
             /\ call'[c].outcome = Return(read_task_run(run_id[call[c].h]))
             /\ call'[c].backend_calls = 0]_vars

\* C9: two PrefectFuture instances with the same run id compare equal and
\* have the same hash; two handles are equal exactly if their ids are.
C9_EqualById ==
    \A a \in Handles, b \in Handles :
        /\ run_id[a] = run_id[b] => (eq(a, b) /\ __hash__(a) = __hash__(b))
        /\ eq(a, b) <=> run_id[a] = run_id[b]

\* the PrefectFuture at path p of expression e, and its run's final state
HandleAt(e, p) == NodeAt(e, p).h

FinalOf(h) == finished[run_id[h]]

\* every future of e has a task run in the server
AllKnown(e) ==
    \A p \in FutureLeaves(e) : read_task_run(run_id[HandleAt(e, p)]) # NoRun

\* C10: for an expression with a future whose run ends Failed,
\* resolve_futures_to_data ends in the error that carries the failure's
\* payload and returns nothing, and resolve_futures_to_states returns the
\* expression with the Failed state in the future's place and does not raise.
C10_FailedFuture ==
    LET cr == call[Resolver]
        e  == cr.expr
        failed == { p \in FutureLeaves(e) : is_failed(FinalOf(HandleAt(e, p))) }
        \* the futures whose wait and get_result cannot raise
        harmless(p) == \A q \in FutureLeaves(e) :
                          \/ run_id[HandleAt(e, q)] = run_id[HandleAt(e, p)]
                          \/ /\ read_task_run(run_id[HandleAt(e, q)]) # NoRun
                             /\ FinalOf(HandleAt(e, q)).type \in {"None", "Completed"}
    IN  /\ (cr.op = "to_data" /\ cr.pc = "done")
           => /\ failed # {} => cr.outcome.kind = "raise"
              /\ is_failed(cr.waited)
                 => /\ cr.waited = FinalOf(HandleAt(e, cr.path))
                    /\ cr.waited.data \in Payloads
                    /\ cr.outcome = Raise(UpstreamFailure(cr.waited.data))
              /\ \A p \in failed :
                    harmless(p)
                    => cr.outcome = Raise(UpstreamFailure(FinalOf(HandleAt(e, p)).data))
        /\ (cr.op = "to_states" /\ cr.pc = "done")
           => /\ cr.outcome.kind = "raise" => cr.outcome.val = NotFound
              /\ AllKnown(e) => cr.outcome.kind = "return"
              /\ cr.outcome.kind = "return"
                 => \A p \in failed :
                       NodeAt(cr.outcome.val, p) = StateNode(FinalOf(HandleAt(e, p)))

\* resolve_futures_to_data has raised the failure of a future inside a list
C10_Witness ==
    LET cr == call[Resolver]
    IN  /\ cr.op = "to_data" /\ cr.pc = "done"
        /\ cr.expr.kind = "list"
        /\ is_failed(cr.waited)
        /\ cr.outcome = Raise(UpstreamFailure(FinalOf(HandleAt(cr.expr, cr.path)).data))

\* resolve_futures_to_states has returned a list with a Failed state in it
C10_WitnessStates ==
    LET cr == call[Resolver]
    IN  /\ cr.op = "to_states" /\ cr.pc = "done" /\ cr.outcome.kind = "return"
        /\ \E p \in FutureLeaves(cr.expr) :
              /\ p # <<>>
              /\ NodeAt(cr.outcome.val, p).kind = "state"
              /\ is_failed(NodeAt(cr.outcome.val, p).s)

\* the resolver's call is on its way
Resolving(cr) == cr.op \in {"to_data", "to_states"} /\ cr.pc # "done"

\* the resolver's call has returned
Resolved(cr) ==
    cr.op \in {"to_data", "to_states"} /\ cr.pc = "done" /\ cr.outcome.kind = "return"

\* what the resolver puts in the place of future h once its run is final
ResolvedNode(op, h) ==
    IF op = "to_data" THEN Scalar(FinalOf(h).data) ELSE StateNode(FinalOf(h))

\* C11: a resolver returns only when every future of the expression is
\* resolved: while futures are left the caller has no result; the waits it
\* makes carry no timeout; every future it has replaced so far stands for a
\* run that is final and is replaced by that final state (or its payload);
\* and what it returns holds no future, in whatever order the futures were
\* visited.
C11_FullyResolved ==
    LET cr == call[Resolver]
        e  == cr.expr
    IN  /\ Resolving(cr)
           => /\ cr.outcome = NoOutcome
              /\ cr.timeout = NoTimeout
              /\ \A p \in FutureLeaves(e) \ FutureLeaves(cr.acc) :
                    /\ IsTerminal(FinalOf(HandleAt(e, p)))
                    /\ NodeAt(cr.acc, p) = ResolvedNode(cr.op, HandleAt(e, p))
        /\ Resolved(cr)
           => /\ FutureLeaves(cr.outcome.val) = {}
              /\ \A p \in FutureLeaves(e) : IsTerminal(FinalOf(HandleAt(e, p)))
              /\ FutureLeaves(e) # {}
                 => /\ IsTerminal(cr.waited)
                    /\ cr.waited = FinalOf(HandleAt(e, cr.path))

\* a resolver has returned a list of which it visited the second future
\* first and the first future last
C11_Witness ==
    LET cr == call[Resolver]
    IN  /\ Resolved(cr)
        /\ Cardinality(FutureLeaves(cr.expr)) = 2
        /\ cr.path = <<2>>
        /\ FutureLeaves(cr.outcome.val) = {}

RECURSIVE InPlace(_, _, _)
\* r is e with every future replaced, where it stands, by what the resolver
\* op puts for it, and with everything else as it is in e
InPlace(op, e, r) ==
    IF e.kind = "future" THEN r = ResolvedNode(op, e.h)
    ELSE IF e.kind \in Collections
         THEN /\ r.kind = e.kind
              /\ [r EXCEPT !.items = <<>>] = [e EXCEPT !.items = <<>>]
              /\ Len(r.items) = Len(e.items)
              /\ \A i \in DOMAIN e.items : InPlace(op, e.items[i], r.items[i])
         ELSE r = e

RECURSIVE InPlaceOrMerged(_, _, _)
\* as InPlace, but a set is the set of what its members became
InPlaceOrMerged(op, e, r) ==
    IF e.kind = "future" THEN r = ResolvedNode(op, e.h)
    ELSE IF e.kind \in Collections
         THEN /\ r.kind = e.kind
              /\ [r EXCEPT !.items = <<>>] = [e EXCEPT !.items = <<>>]
              /\ IF e.kind = "set"
                 THEN /\ \A i \in DOMAIN e.items : \E j \in DOMAIN r.items :
                            InPlaceOrMerged(op, e.items[i], r.items[j])
                      /\ \A j \in DOMAIN r.items : \E i \in DOMAIN e.items :
                            InPlaceOrMerged(op, e.items[i], r.items[j])
                      /\ \A i \in DOMAIN r.items, j \in DOMAIN r.items :
                            r.items[i] = r.items[j] => i = j
                 ELSE /\ Len(r.items) = Len(e.items)
                      /\ \A i \in DOMAIN e.items :
                            InPlaceOrMerged(op, e.items[i], r.items[i])
         ELSE r = e

C13_HandleFreeIdentity ==
    LET cr == call[Resolver]
    IN  (cr.op \in {"to_data", "to_states"} /\ FutureLeaves(cr.expr) = {})
        => /\ cr.pc = "done"
           /\ cr.outcome = Return(cr.expr)
           /\ cr.queries = 0
           /\ cr.backend_calls = 0

\* resolve_futures_to_states has returned the list without futures
C13_Witness ==
    LET cr == call[Resolver]
    IN  /\ cr.op = "to_states" /\ cr.pc = "done"
        /\ cr.expr.kind = "list" /\ FutureLeaves(cr.expr) = {}
        /\ cr.outcome = Return(cr.expr)
        /\ cr.queries = 0 /\ cr.backend_calls = 0

\* C14: when the server knows no run for a future, the wait that asked raises
\* the RuntimeError, and the call it was made in ends with that error at
\* that step, with no further query and no call of the executor: the
\* resolvers return no expression, a direct wait raises to its caller. A
\* resolver that returned had only futures the server knows.
C14_NotFoundPropagates ==
    /\ [][\A c \in Callers :
             (/\ call[c].pc = "get_state"
              /\ read_task_run(run_id[call[c].h]) = NoRun
              /\ call'[c] # call[c])
             => /\ call'[c].op = call[c].op
                /\ call'[c].pc = "done"
                /\ call'[c].outcome = Raise(NotFound)
                /\ call'[c].queries = call[c].queries
                /\ call'[c].backend_calls = call[c].backend_calls]_vars
    /\ [](Resolved(call[Resolver]) => AllKnown(call[Resolver].expr))

\* a resolver has ended with the RuntimeError of the second future it
\* visited in a list, and a direct wait with the same error
C14_Witness ==
    LET cr == call[Resolver]
    IN  /\ cr.op \in {"to_data", "to_states"} /\ cr.pc = "done"
        /\ cr.outcome = Raise(NotFound)
        /\ cr.expr.kind = "list" /\ cr.queries = 2
        /\ \E c \in Callers \ {Resolver} :
              /\ call[c].op = "wait" /\ call[c].pc = "done"
              /\ call[c].outcome = Raise(NotFound)

\* caller c is in a wait call without timeout, made with an empty cache, for
\* a run the server knows
WaitsUntimed(c) ==
    /\ call[c].op = "wait" /\ call[c].timeout = NoTimeout
    /\ call[c].pc \in {"get_state", "executor_wait", "assign"}
    /\ read_task_run(run_id[call[c].h]) # NoRun

\* caller c's wait call has returned a final state
ReturnedFinal(c) ==
    /\ call[c].op = "wait" /\ call[c].pc = "done"
    /\ call[c].outcome.kind = "return" /\ IsTerminal(call[c].outcome.val)

\* C15: under the fair scheduling of SpecFair, every wait call without
\* timeout that is made with an empty cache for a run the server knows
\* returns in the end, and what it returns is a final state; and no such
\* call returns while the run is not final: when it returns the run has
\* reached its final state and that state is what is returned.
C15_UntimedWaitReturns ==
    /\ \A c \in Callers : WaitsUntimed(c) ~> ReturnedFinal(c)
    /\ [][\A c \in Callers :
             (WaitEnds(c) /\ call[c].timeout = NoTimeout
              /\ call'[c].outcome.kind = "return")
             => /\ IsTerminal(FinalOf(call[c].h))
                /\ call'[c].outcome.val = FinalOf(call[c].h)]_vars

\* a wait call without timeout that had to ask the executor, for a run that
\* was not final when the call was made, has returned the final state
C15_Witness ==
    \E c \in Callers :
        /\ ReturnedFinal(c)
        /\ call[c].timeout = NoTimeout
        /\ call[c].backend_calls = 1
        /\ call[c].outcome.val = FinalOf(call[c].h)

\* C16: a wait call made with an empty cache first sends one query; it then
\* calls the executor's wait, once, exactly if the state the server answered
\* is not terminal or is terminal without payload, and otherwise returns
\* with no call of the executor; the executor's wait gets the same future
\* and the caller's timeout (it answers for that future's run, and with None
\* only if there is a timeout); and wait returns what the executor returned.
C16_WaitOrdering ==
    [][\A c \in Callers :
          /\ \A h \in Handles :
                (CallsWait(c, h) /\ ~Truthy(_final_state[h]))
                => /\ call'[c].pc = "get_state"
                   /\ call'[c].queries = 1
                   /\ call'[c].backend_calls = 0
          /\ (/\ call[c].op = "wait" /\ call[c].pc = "get_state"
              /\ read_task_run(run_id[call[c].h]) # NoRun
              /\ call'[c] # call[c])
             => LET s == read_task_run(run_id[call[c].h])
                IN  IF ~IsTerminal(s) \/ s.data = NoData
                    THEN /\ call'[c].pc = "executor_wait"
                         /\ call'[c].h = call[c].h
                         /\ call'[c].timeout = call[c].timeout
                         /\ call'[c].queries = 1
                         /\ call'[c].backend_calls = 1
                    ELSE /\ call'[c].pc = "done"
                         /\ call'[c].queries = 1
                         /\ call'[c].backend_calls = 0
          /\ (/\ call[c].op = "wait" /\ call[c].pc = "executor_wait"
              /\ call'[c] # call[c])
             => /\ call'[c].pc = "assign"
                /\ call'[c].backend_calls = 1
                /\ call'[c].result = IF FinalOf(call[c].h) # None
                                     THEN FinalOf(call[c].h)
                                     ELSE None
                /\ call'[c].result = None => call[c].timeout # NoTimeout
          /\ (/\ call[c].op = "wait" /\ call[c].pc = "assign"
              /\ call'[c] # call[c])
             => /\ call'[c].pc = "done"
                /\ call'[c].outcome = Return(call[c].result)
                /\ call'[c].queries = 1
                /\ call'[c].backend_calls = 1]_vars

\* C17: _final_state of a future created without it is None or a terminal
\* state in every reachable state, never a Pending or Running one (the
\* executor's wait returning a final state or None).
C17_CacheTerminalOrEmpty ==
    \A h \in Handles : _final_state[h] = None \/ IsTerminal(_final_state[h])

\* a wait call has read a state that is not final from the server, asked the
\* executor, and stored the final state it got
C17_Witness ==
    \E c \in Callers :
        /\ call[c].op = "wait" /\ call[c].pc = "done" /\ call[c].backend_calls = 1
        /\ IsTerminal(_final_state[call[c].h])
        /\ call[c].outcome = Return(_final_state[call[c].h])
        /\ read_task_run(run_id[call[c].h]).data = NoData

\* the state the server has for h is Completed or Failed with a payload
StoreHasResult(h) ==
    LET s == read_task_run(run_id[h])
    IN  (is_completed(s) \/ is_failed(s)) /\ s.data # NoData

\* C18: wait returns None only out of a call with a timeout whose executor
\* wait timed out; a wait call with any timeout, 0 included, on a future for
\* which the server has a Completed or Failed state with payload returns
\* that state, from the cache or from the server's answer, never None.
C18_EmptyOnlyOnTimeout ==
    [][\A c \in Callers :
          /\ (/\ call'[c] # call[c]
              /\ call'[c].op = "wait" /\ call'[c].pc = "done"
              /\ call'[c].outcome = Return(None))
             => /\ call[c].op = "wait" /\ call[c].pc = "assign"
                /\ call[c].result = None
                /\ call[c].timeout # NoTimeout
          /\ \A h \in Handles :
                (CallsWait(c, h) /\ StoreHasResult(h))
                => \/ call'[c].pc = "get_state"
                   \/ /\ call'[c].pc = "done"
                      /\ call'[c].outcome = Return(read_task_run(run_id[h]))
          /\ (/\ call[c].op = "wait" /\ call[c].pc = "get_state"
              /\ StoreHasResult(call[c].h)
              /\ call'[c] # call[c])
             => /\ call'[c].pc = "done"
                /\ call'[c].outcome = Return(read_task_run(run_id[call[c].h]))]_vars

\* a wait call with timeout 0 has returned the Failed state the server had,
\* with its payload
C18_Witness ==
    \E c \in Callers :
        /\ call[c].op = "wait" /\ call[c].pc = "done"
        /\ call[c].timeout = 0
        /\ is_failed(call[c].outcome.val) /\ call[c].outcome.kind = "return"
        /\ call[c].outcome.val = read_task_run(run_id[call[c].h])
        /\ call[c].outcome.val.data # NoData

====
